---------------------------- MODULE Spec2Model ----------------------------
(***************************************************************************)
(* Path projection of sim-v5 (packages/app/src/use-path.ts).               *)
(*                                                                         *)
(* Numbers.  Every JavaScript number of the projection (coordinates,       *)
(* velocity components, times) is held as an integer count of 1/U, with U  *)
(* a power of two.  The inputs are drawn from dyadic values on which every *)
(* IEEE-754 operation of the code is exact; the variable `exact` records   *)
(* that no multiplication or division of a run ever had to round, so that  *)
(* the fixed-point results are the results the doubles give.               *)
(*                                                                         *)
(* Objects.  Vec2 values that the code shares by reference (the cursor     *)
(* position, the velocity, the running endpoint u and the slide            *)
(* velocities) live in `heap`; a segment's a, b and v are references.      *)
(***************************************************************************)
EXTENDS Integers, Sequences, FiniteSets, TLC

VARIABLES
  world,      \* world.cells: function from cell id to "Grass" / "Stone"
  cursor,     \* cursor.position: reference into heap
  velocity,   \* velocity: reference into heap
  heap,       \* Vec2 objects, by reference (1..Len(heap))
  pc,         \* "start", "loop", "done" (returned) or "error" (invariant threw)
  stepX,      \* Math.sign(velocity.x)
  stepY,      \* Math.sign(velocity.y)
  x,          \* running coordinate x
  y,          \* running coordinate y
  u,          \* running endpoint: reference into heap
  time,       \* simulated clock
  path,       \* the segments pushed so far
  cell0,      \* the classified cell of the last iteration (toCellId(point) read at line 51)
  point,      \* local point at the end of the last iteration
  v,          \* local v at the end of the last iteration: reference, or null
  blockedBy,  \* local blockedBy of the last iteration
  t,          \* local t of the last iteration
  tRaw,       \* min(tMaxX, tMaxY) of the last iteration, before the truncation
  time0,      \* the clock at the start of the last iteration
  xy0,        \* <<x, y>> at the start of the last iteration
  probes,     \* the cell ids read from world.cells in the last iteration, in order
  queried,    \* every cell id read from world.cells during the call
  last,       \* how the last iteration ended: "none", "push", "break" or "throw"
  exact,      \* no arithmetic operation of the call had to round
  player,     \* App's player state: [position, point], by value
  appVelocity, \* App's velocity (the result of useVelocity), by value
  allowMove,  \* ALLOW_MOVE of const.ts
  calls,      \* the calls of move made by the last step, in order
  dragVelocity, \* the velocity useVelocity gives for the current drag state
  appPath,    \* App's path: the result of usePath in the last render
  updates,    \* the updaters given to setPlayer and not yet run by React
  effectsPending, \* a render was committed whose effects have not run yet
  effect,     \* the effect of useMovePlayer in force: <<path>>, the path that
              \* step closes over, or <<>> when no step was set up
  handle,     \* an animation frame is requested and not cancelled
  lastStep,   \* lastStep.current: null or a time
  now,        \* self.performance.now(), in milliseconds
  frames,     \* the animation frames so far
  appError,   \* an assertion threw in a frame callback or in a render
  debug,      \* App's debug state in the last render
  since,      \* the time of the last step of the running loop, or of its
              \* start when it has made no step; null when no loop is running
  vec,        \* a Vec2 object: the receiver, then the object a method returned
  vecOp,      \* the Vec2 operation that gave vec: "none", "new", "add", ...
  vecThrown   \* the operation threw at an assertion

\* the variables of the frame loop
frameVars == <<dragVelocity, appPath, updates, effectsPending, effect, handle,
               lastStep, now, frames, appError, debug, since>>

\* the variables of the Vec2 operations
vecVars == <<vec, vecOp, vecThrown>>

\* the variables of App and of its frame loop
appVars == <<player, appVelocity, allowMove, calls, frameVars, vecVars>>

vars == <<world, cursor, velocity, heap, pc, stepX, stepY, x, y, u, time, path,
          cell0, point, v, blockedBy, t, tRaw, time0, xy0, probes, queried,
          last, exact, player, appVelocity, allowMove, calls, dragVelocity,
          appPath, updates, effectsPending, effect, handle, lastStep, now,
          frames, appError, debug, since, vec, vecOp, vecThrown>>

---------------------------------------------------------------------------
(* Fixed-point numbers *)

U == 2^10                 \* units per 1.0
Half == U \div 2
Infinity == 2^30          \* Number.POSITIVE_INFINITY
null == 0                 \* the null reference
undefined == <<>>         \* an absent point / an absent cell entry
NoCell == "undefined"     \* world.cells[id] of an absent id

Abs(n) == IF n < 0 THEN -n ELSE n

\* no Vec2 operation is looked at
VecIdle == vec = <<>> /\ vecOp = "none" /\ vecThrown = FALSE

\* no frame loop is running
FrameIdle ==
  /\ dragVelocity = null /\ appPath = <<>> /\ updates = <<>>
  /\ effectsPending = FALSE /\ effect = <<>> /\ handle = FALSE
  /\ lastStep = null /\ now = 0 /\ frames = 0 /\ appError = FALSE
  /\ debug = FALSE /\ since = null

\* Math.sign on a number; the result is the number 1, -1 or 0
Sign(n) == IF n > 0 THEN U ELSE IF n < 0 THEN -U ELSE 0

\* JavaScript n % m: the remainder has the sign of the dividend
JsRem(n, m) == IF n < 0 THEN -(Abs(n) % Abs(m)) ELSE n % Abs(m)

\* Math.floor
Floor(n) == (n \div U) * U

\* Math.round: the nearest integer, halves upwards
Round(n) == ((n + Half) \div U) * U

\* a * b and a / b, and whether the result is exact
Mul(a, b) ==
  LET q == (Abs(a) * Abs(b)) \div U
  IN IF (a < 0) = (b < 0) THEN q ELSE -q
MulExact(a, b) == (Abs(a) * Abs(b)) % U = 0
Div(a, b) ==
  LET q == (Abs(a) * U) \div Abs(b)
  IN IF (a < 0) = (b < 0) THEN q ELSE -q
DivExact(a, b) == (Abs(a) * U) % Abs(b) = 0

\* Number.EPSILON = 2^-52, below the resolution 1/U
EPSILON == 0

PATH_TIME == Half

\* faulty variant: the plain remainder, negative for a negative dividend
modRemainderOnly(n, m) == JsRem(n, m)

\* math.ts: ((n % m) + m) % m
mod(n, m) == JsRem(JsRem(n, m) + m, m)

---------------------------------------------------------------------------
(* Vec2 *)

Vec2(a, b) == [x |-> a, y |-> b]

\* faulty variant: the length is compared with < 0, which never holds
LenIsNegative(w) == w.x * w.x + w.y * w.y < 0

\* Vec2.len() === 0
LenIsZero(w) == w.x * w.x + w.y * w.y = 0

\* Vec2.mul
VecMul(w, s) == Vec2(Mul(w.x, s), Mul(w.y, s))

\* Vec2.add
VecAdd(w, d) == Vec2(w.x + d.x, w.y + d.y)

---------------------------------------------------------------------------
(* World queries *)

toCellId(p) == <<p[1], p[2]>>

Lookup(w, id) == IF id \in DOMAIN w THEN w[id] ELSE NoCell

\* faulty variant: an absent entry is not taken as blocked
isCellBlockedStoneOnly(cell) == cell = "Stone"

isCellBlocked(cell) ==
  IF cell = NoCell THEN TRUE
  ELSE IF cell = "Stone" THEN TRUE
  ELSE FALSE

---------------------------------------------------------------------------
(* One iteration of the projection loop, lines 43-203 *)

\* faulty variant: the cell behind the line is taken for a step of zero as well
ClassifyStepNotPositive(sx, sy, cx, cy) ==
  << IF sx <= 0 /\ JsRem(cx, U) = 0 THEN cx - U ELSE Floor(cx),
     IF sy <= 0 /\ JsRem(cy, U) = 0 THEN cy - U ELSE Floor(cy) >>

\* faulty variant: the cell is the floor on both axes, whatever the step
ClassifyFloor(sx, sy, cx, cy) == <<Floor(cx), Floor(cy)>>

\* the cell the position is classified into, lines 44-47
Classify(sx, sy, cx, cy) ==
  << IF sx < 0 /\ JsRem(cx, U) = 0 THEN cx - U ELSE Floor(cx),
     IF sy < 0 /\ JsRem(cy, U) = 0 THEN cy - U ELSE Floor(cy) >>

\* the outcome of the blocking resolution: the segment's cell, its velocity
\* (isNull: v = null), and the cell ids read on the way
Resolved(pt, vel, isNull, reads) ==
  [point |-> pt, v |-> vel, isNull |-> isNull, probes |-> reads]

\* axis 'x' of the corner loop, lines 74-86: the cell across the y grid line
CornerAxisX(pt, vel, sy) ==
  LET adjacentPoint == <<pt[1], pt[2] - sy>>
  IN [adjacentPoint |-> adjacentPoint, v |-> Vec2(vel.x, 0)]

\* axis 'y' of the corner loop, lines 87-101: the cell across the x grid line
CornerAxisY(pt, vel, sx) ==
  LET adjacentPoint == <<pt[1] - sx, pt[2]>>
  IN [adjacentPoint |-> adjacentPoint, v |-> Vec2(0, vel.y)]

\* faulty variant: the axis of the smaller magnitude is tried first
CornerOrderSmallerFirst(vel) ==
  IF Abs(vel.x) < Abs(vel.y) THEN <<"x", "y">> ELSE <<"y", "x">>

\* faulty variant: on a tie of the magnitudes the x axis is tried first
CornerOrderTieX(vel) ==
  IF Abs(vel.x) >= Abs(vel.y) THEN <<"x", "y">> ELSE <<"y", "x">>

\* the order in which the corner tries the axes, lines 66-69
CornerOrder(vel) ==
  IF Abs(vel.x) > Abs(vel.y) THEN <<"x", "y">> ELSE <<"y", "x">>

\* faulty variant: a corner with both slide cells blocked keeps the velocity
CornerNeverWedged(w, vel, sx, sy, pt) ==
  Resolved(pt, vel, FALSE,
           <<toCellId(CornerAxisX(pt, vel, sy).adjacentPoint),
             toCellId(CornerAxisY(pt, vel, sx).adjacentPoint)>>)

\* the corner case, lines 60-105
Corner(w, vel, sx, sy, pt) ==
  LET order == CornerOrder(vel)
      try(axis) == IF axis = "x" THEN CornerAxisX(pt, vel, sy)
                                 ELSE CornerAxisY(pt, vel, sx)
      first == try(order[1])
      second == try(order[2])
      id1 == toCellId(first.adjacentPoint)
      id2 == toCellId(second.adjacentPoint)
  IN IF ~isCellBlocked(Lookup(w, id1))
       THEN Resolved(first.adjacentPoint, first.v, FALSE, <<id1>>)
     ELSE IF ~isCellBlocked(Lookup(w, id2))
       THEN Resolved(second.adjacentPoint, second.v, FALSE, <<id1, id2>>)
     ELSE Resolved(pt, vel, TRUE, <<id1, id2>>)

\* faulty variant: the cell ahead of the vertical line is probed
EdgeXAhead(w, vel, sx, pt) ==
  LET adjacentPoint == <<pt[1] + sx, pt[2]>>
      adjacentId == toCellId(adjacentPoint)
  IN IF isCellBlocked(Lookup(w, adjacentId))
       THEN Resolved(pt, vel, TRUE, <<adjacentId>>)
       ELSE Resolved(adjacentPoint, Vec2(0, vel.y), FALSE, <<adjacentId>>)

\* on a vertical grid line (x an integer), lines 106-121
EdgeX(w, vel, sx, pt) ==
  LET adjacentPoint == <<pt[1] - sx, pt[2]>>
      adjacentId == toCellId(adjacentPoint)
  IN IF isCellBlocked(Lookup(w, adjacentId))
       THEN Resolved(pt, vel, TRUE, <<adjacentId>>)
       ELSE Resolved(adjacentPoint, Vec2(0, vel.y), FALSE, <<adjacentId>>)

\* faulty variant: the slide along a horizontal line keeps the velocity
EdgeYKeepsVelocity(w, vel, sy, pt) ==
  LET adjacentPoint == <<pt[1], pt[2] - sy>>
      adjacentId == toCellId(adjacentPoint)
  IN IF isCellBlocked(Lookup(w, adjacentId))
       THEN Resolved(pt, vel, TRUE, <<adjacentId>>)
       ELSE Resolved(adjacentPoint, vel, FALSE, <<adjacentId>>)

\* on a horizontal grid line (y an integer), lines 122-137
EdgeY(w, vel, sy, pt) ==
  LET adjacentPoint == <<pt[1], pt[2] - sy>>
      adjacentId == toCellId(adjacentPoint)
  IN IF isCellBlocked(Lookup(w, adjacentId))
       THEN Resolved(pt, vel, TRUE, <<adjacentId>>)
       ELSE Resolved(adjacentPoint, Vec2(vel.x, 0), FALSE, <<adjacentId>>)

\* faulty variant: a position on no grid line is taken as one on a
\* horizontal line, so that the assertion is never reached
BranchNoInterior(cx, cy) ==
  IF JsRem(cx, U) = 0 /\ JsRem(cy, U) = 0 THEN "corner"
  ELSE IF JsRem(cx, U) = 0 THEN "edgeX"
  ELSE "edgeY"

\* which branch of lines 60-140 a blocked position takes
Branch(cx, cy) ==
  IF JsRem(cx, U) = 0 /\ JsRem(cy, U) = 0 THEN "corner"
  ELSE IF JsRem(cx, U) = 0 THEN "edgeX"
  ELSE IF JsRem(cy, U) = 0 THEN "edgeY"
  ELSE "interior"

\* faulty variant: the distance to the grid line behind instead of ahead
TMaxBehind(vc, step, c) ==
  IF vc = 0 THEN Infinity ELSE Abs(Div(mod(c, step), vc))

\* faulty variant: the time to half of the way to the grid line ahead
TMaxHalfway(vc, step, c) ==
  IF vc = 0 THEN Infinity ELSE Abs(Div((step - mod(c, step)) \div 2, vc))

\* time to the next grid line on one axis, lines 147-155
TMax(vc, step, c) ==
  IF vc = 0 THEN Infinity ELSE Abs(Div(step - mod(c, step), vc))
TMaxExact(vc, step, c) ==
  vc = 0 \/ DivExact(step - mod(c, step), vc)

\* faulty variant: every coordinate becomes the nearest integer
SnapAlways(c) == Round(c)

\* lines 179-191: a coordinate within EPSILON of an integer becomes that integer
Snap(c) == IF Abs(c - Round(c)) <= EPSILON THEN Round(c) ELSE c

\* the in-place snapping of the object u, lines 179-181 and 186-188
SnapInPlace(h, ref) ==
  [h EXCEPT ![ref] = Vec2(Snap(h[ref].x), Snap(h[ref].y))]

\* faulty variant: the snapped coordinates are written to the object a
SnapTargetStart(oldU, newU) == oldU

\* the object that receives the snapped coordinates: the new u of line 173
SnapTarget(oldU, newU) == newU

\* faulty variant: the clock is set to PATH_TIME but the step is not shortened
ClipClockOnly(tm, tMin) ==
  IF tm + tMin > PATH_TIME
    THEN [t |-> tMin, time |-> PATH_TIME]
    ELSE [t |-> tMin, time |-> tm + tMin]

\* faulty variant: the clock is not advanced by an untruncated step
ClipNoAdvance(tm, tMin) ==
  IF tm + tMin > PATH_TIME
    THEN [t |-> PATH_TIME - tm, time |-> PATH_TIME]
    ELSE [t |-> tMin, time |-> tm]

\* lines 161-166: the step is cut so that the clock never passes PATH_TIME
Clip(tm, tMin) ==
  IF tm + tMin > PATH_TIME
    THEN [t |-> PATH_TIME - tm, time |-> PATH_TIME]
    ELSE [t |-> tMin, time |-> tm + tMin]

\* faulty variant: the segment's start is read after u was advanced
SegmentStartAfterAdd(a, b, dur, vref, pt, blk) ==
  [a |-> b, b |-> b, t |-> dur, v |-> vref, point |-> pt, blockedBy |-> blk]

\* the segment pushed at lines 195-202
Segment(a, b, dur, vref, pt, blk) ==
  [a |-> a, b |-> b, t |-> dur, v |-> vref, point |-> pt, blockedBy |-> blk]

\* lines 51-141: the classified cell is read; an open cell keeps the
\* velocity object, a blocked one is resolved by the branch the position
\* takes, and the strict-interior branch throws (line 139)
Resolution(w, vel, sx, sy, cx, cy, pt) ==
  IF ~isCellBlocked(Lookup(w, toCellId(pt)))
    THEN Resolved(pt, vel, FALSE, <<>>) @@
         [blockedBy |-> undefined, thrown |-> FALSE, fresh |-> FALSE]
  ELSE IF Branch(cx, cy) = "interior"
    THEN Resolved(pt, vel, TRUE, <<>>) @@
         [blockedBy |-> pt, thrown |-> TRUE, fresh |-> FALSE]
  ELSE \* fresh: v is a new Vec2 rather than the velocity object
    LET r == IF Branch(cx, cy) = "corner" THEN Corner(w, vel, sx, sy, pt)
             ELSE IF Branch(cx, cy) = "edgeX" THEN EdgeX(w, vel, sx, pt)
             ELSE EdgeY(w, vel, sy, pt)
    IN r @@ [blockedBy |-> pt, thrown |-> FALSE, fresh |-> ~r.isNull]

\* line 157: the smaller of the two crossing times
MinT(tMaxX, tMaxY) == IF tMaxX < tMaxY THEN tMaxX ELSE tMaxY

---------------------------------------------------------------------------
(* The inputs *)

StartSpan == 2

\* velocity components, cells per second
Speeds == {0, 2, 4}
Components == {c * U : c \in Speeds} \cup {-(c * U) : c \in Speeds}

\* the worlds: a two by two block of cells at one of two origins, every
\* cell of the block Grass, Stone or absent; every other cell is absent
Origins == {<<-1, -1>>, <<0, 0>>}
Block(o) == {<<(o[1] + i) * U, (o[2] + j) * U>> : i, j \in {0, 1}}
Worlds(o) == UNION {[D -> {"Grass", "Stone"}] : D \in SUBSET Block(o)}

\* start positions: half-cell steps over StartSpan cells from the origin
Starts(o) ==
  {Vec2(o[1] * U + i * Half, o[2] * U + j * Half) : i, j \in 0..(2 * StartSpan)}

Init ==
  /\ \E o \in Origins :
       /\ world \in Worlds(o)
       /\ \E p \in Starts(o), vx, vy \in Components :
            heap = <<p, Vec2(vx, vy)>>
  /\ cursor = [position |-> 1]
  /\ velocity = 2
  /\ pc = "start"
  /\ stepX = 0 /\ stepY = 0 /\ x = 0 /\ y = 0 /\ u = null /\ time = 0
  /\ path = <<>>
  /\ cell0 = undefined /\ point = undefined /\ v = null
  /\ blockedBy = undefined /\ t = 0 /\ tRaw = 0 /\ time0 = 0
  /\ xy0 = undefined /\ probes = <<>> /\ queried = {}
  /\ last = "none" /\ exact = TRUE
  /\ player = null /\ appVelocity = null /\ allowMove = TRUE /\ calls = <<>>
  /\ FrameIdle
  /\ VecIdle

---------------------------------------------------------------------------
(* The actions *)

\* lines 32-34: a velocity of zero length returns the empty path
ReturnEmpty ==
  /\ pc = "start"
  /\ LenIsZero(heap[velocity])
  /\ pc' = "done"
  /\ UNCHANGED <<world, cursor, velocity, heap, stepX, stepY, x, y, u, time,
                 path, cell0, point, v, blockedBy, t, tRaw, time0, xy0,
                 probes, queried, last, exact>>
  /\ UNCHANGED appVars

\* faulty variant: x and y are not read from the cursor, they keep what
\* they held before the call
EnterKeepsXY ==
  /\ pc = "start"
  /\ ~LenIsZero(heap[velocity])
  /\ stepX' = Sign(heap[velocity].x)
  /\ stepY' = Sign(heap[velocity].y)
  /\ path' = <<>>
  /\ u' = cursor.position
  /\ time' = 0
  /\ pc' = "loop"
  /\ UNCHANGED <<world, cursor, velocity, heap, x, y, cell0, point, v,
                 blockedBy, t, tRaw, time0, xy0, probes, queried, last, exact>>
  /\ UNCHANGED appVars

\* lines 36-42: the locals before the loop
Enter ==
  /\ pc = "start"
  /\ ~LenIsZero(heap[velocity])
  /\ stepX' = Sign(heap[velocity].x)
  /\ stepY' = Sign(heap[velocity].y)
  /\ x' = heap[cursor.position].x
  /\ y' = heap[cursor.position].y
  /\ path' = <<>>
  /\ u' = cursor.position
  /\ time' = 0
  /\ pc' = "loop"
  /\ UNCHANGED <<world, cursor, velocity, heap, cell0, point, v, blockedBy,
                 t, tRaw, time0, xy0, probes, queried, last, exact>>
  /\ UNCHANGED appVars

\* line 139: invariant(false) throws, nothing is returned
Throw ==
  /\ pc' = "error"
  /\ last' = "throw"
  /\ v' = null
  /\ t' = 0 /\ tRaw' = 0
  /\ UNCHANGED <<heap, x, y, u, time, path, exact>>

\* lines 143-145: v is null or of zero length, the loop is left
Break(r) ==
  /\ pc' = "done"
  /\ last' = "break"
  /\ heap' = IF r.fresh THEN Append(heap, r.v) ELSE heap
  /\ v' = IF r.isNull THEN null
          ELSE IF r.fresh THEN Len(heap) + 1 ELSE velocity
  /\ t' = 0 /\ tRaw' = 0
  /\ UNCHANGED <<x, y, u, time, path, exact>>

\* lines 147-202: the step is computed and the segment pushed
Push(r) ==
  \E tMin \in {MinT(TMax(r.v.x, stepX, x), TMax(r.v.y, stepY, y))} :
  \E clip \in {Clip(time, tMin)} :
  \E du \in {VecMul(r.v, clip.t)} :
  \E heap1 \in {IF r.fresh THEN Append(heap, r.v) ELSE heap} :
  \E vRef \in {IF r.fresh THEN Len(heap1) ELSE velocity} :
  \E heap2 \in {Append(heap1, VecAdd(heap1[u], du))} :
  \E newU \in {Len(heap2)} :
    /\ pc' = "loop"
    /\ last' = "push"
    /\ tRaw' = tMin
    /\ t' = clip.t
    /\ time' = clip.time
    /\ v' = vRef
    /\ u' = newU
    /\ x' = Snap(x + du.x)
    /\ y' = Snap(y + du.y)
    /\ heap' = SnapInPlace(heap2, SnapTarget(u, newU))
    /\ path' = Append(path, Segment(u, newU, clip.t, vRef, r.point, r.blockedBy))
    /\ exact' = /\ exact
                /\ TMaxExact(r.v.x, stepX, x) /\ TMaxExact(r.v.y, stepY, y)
                /\ MulExact(r.v.x, clip.t) /\ MulExact(r.v.y, clip.t)

\* lines 43-203: one iteration of the loop
Iterate ==
  /\ pc = "loop"
  /\ time # PATH_TIME
  /\ \E pt0 \in {Classify(stepX, stepY, x, y)} :
     \E r \in {Resolution(world, heap[velocity], stepX, stepY, x, y, pt0)} :
     \E reads \in {<<toCellId(pt0)>> \o r.probes} :
       /\ cell0' = toCellId(pt0)
       /\ blockedBy' = r.blockedBy
       /\ point' = r.point
       /\ probes' = reads
       /\ queried' = queried \cup {reads[i] : i \in 1..Len(reads)}
       /\ time0' = time
       /\ xy0' = <<x, y>>
       /\ IF r.thrown THEN Throw
          ELSE IF r.isNull \/ LenIsZero(r.v) THEN Break(r)
          ELSE Push(r)
  /\ UNCHANGED <<world, cursor, velocity, stepX, stepY>>
  /\ UNCHANGED appVars

\* lines 43 and 205: the clock reached PATH_TIME, the path is returned
Return ==
  /\ pc = "loop"
  /\ time = PATH_TIME
  /\ pc' = "done"
  /\ UNCHANGED <<world, cursor, velocity, heap, stepX, stepY, x, y, u, time,
                 path, cell0, point, v, blockedBy, t, tRaw, time0, xy0,
                 probes, queried, last, exact>>
  /\ UNCHANGED appVars

Next == ReturnEmpty \/ Enter \/ Iterate \/ Return

Spec == Init /\ [][Next]_vars

\* the call ends: the loop is a synchronous computation that always runs on
FairSpec == Spec /\ WF_vars(Next)

---------------------------------------------------------------------------
(* Fidelity of the fixed-point arithmetic *)

\* no operation of any run had to round
ArithmeticExact == exact

TypeOK ==
  /\ pc \in {"start", "loop", "done", "error"}
  /\ time \in 0..PATH_TIME
  /\ u \in 0..Len(heap)
  /\ v \in 0..Len(heap)

---------------------------------------------------------------------------
(* Properties of the projected path *)

Segments == 1..Len(path)
Returned == pc = "done"
Position(ref) == heap[ref]

\* C1: the cell of every segment has an entry in world.cells, and that
\* entry is not Stone; no segment is emitted in a Stone or absent cell.
SegmentCellsOpen ==
  \A i \in Segments :
    /\ path[i].point \in DOMAIN world
    /\ world[path[i].point] # "Stone"

\* a returned path with an unblocked segment and a wall-slide segment
SegmentCellsOpenWitness ==
  /\ Returned
  /\ \E i, j \in Segments :
       /\ path[i].blockedBy = undefined
       /\ path[j].blockedBy # undefined

\* the closed unit square of the cell pt holds the position p
InClosedCell(p, pt) ==
  /\ pt[1] <= p.x /\ p.x <= pt[1] + U
  /\ pt[2] <= p.y /\ p.y <= pt[2] + U

SegmentsContinuous ==
  /\ \A i \in Segments :
       i + 1 \in Segments => path[i].b = path[i + 1].a
  /\ path # <<>> => path[1].a = cursor.position
  /\ last = "push" /\ Len(path) = 1
       => Position(path[1].a) = Vec2(xy0[1], xy0[2])

\* a returned path of three segments
SegmentsContinuousWitness ==
  /\ Returned
  /\ Len(path) >= 3
  /\ Position(path[2].a) # Position(path[3].a)

\* the sum of the durations of a sequence of segments
RECURSIVE SumT(_)
SumT(segs) == IF segs = <<>> THEN 0 ELSE segs[1].t + SumT(Tail(segs))

\* C4: the durations of a returned path sum to PATH_TIME when the loop was
\* not left by the break, and to less than PATH_TIME when it was; the clock
\* is the sum of the durations and never exceeds PATH_TIME.
TimeBudget ==
  /\ pc \in {"loop", "done"} => time = SumT(path) /\ time <= PATH_TIME
  /\ Returned /\ ~LenIsZero(heap[velocity]) /\ last # "break"
       => SumT(path) = PATH_TIME
  /\ Returned /\ last = "break" => SumT(path) < PATH_TIME

\* a path of several segments that was cut short by the break
TimeBudgetWitness ==
  /\ Returned /\ last = "break" /\ Len(path) >= 2
  /\ 0 < SumT(path)

\* C5: whenever an iteration reaches the step computation, min(tMaxX, tMaxY)
\* is positive, and every segment of the path has a positive duration.
DurationsPositive ==
  /\ last = "push" => tRaw > 0 /\ t > 0
  /\ \A i \in Segments : path[i].t > 0

\* a step taken from a grid corner against both axes, at negative
\* coordinates, and truncated to the budget
DurationsPositiveWitness ==
  /\ last = "push"
  /\ JsRem(xy0[1], U) = 0 /\ JsRem(xy0[2], U) = 0
  /\ xy0[1] < 0 /\ stepX < 0 /\ stepY < 0
  /\ t < tRaw

\* the call is over: the path was returned, or the assertion threw
Ended == pc \in {"done", "error"}

\* C6 as stated: every iteration of the loop either breaks or increases
\* the clock by a positive amount, and the loop ends after finitely many
\* iterations.
IterationBreaksOrAdvances ==
  /\ [][pc = "loop" /\ time # PATH_TIME
          => \/ pc' = "done" /\ last' = "break"
             \/ pc' = "loop" /\ time' > time]_vars
  /\ <>Ended

\* C6, amended: every iteration either breaks, or throws at the
\* strict-interior assertion (only from a start strictly inside a blocked
\* cell, in the first iteration), or increases the clock by a positive
\* amount; and the call ends after finitely many iterations, with the clock
\* at PATH_TIME when the loop was left neither by break nor by the throw.
ProjectionTerminates ==
  /\ [][pc = "loop" /\ time # PATH_TIME
          => \/ pc' = "done" /\ last' = "break"
             \/ pc' = "error" /\ last' = "throw" /\ path = <<>>
                  /\ Branch(x, y) = "interior"
             \/ pc' = "loop" /\ last' = "push" /\ time' > time]_vars
  /\ [](Returned /\ last = "push" => time = PATH_TIME)
  /\ <>Ended

\* a call that ended at the budget after three iterations
ProjectionTerminatesWitness ==
  /\ Returned /\ last = "push" /\ Len(path) >= 3 /\ time = PATH_TIME

\* The grid lines and cells the runs can touch, stated without the
\* operators of the code
Lines == {k * U : k \in -8..8}
IsInteger(c) == c \in Lines
FloorOf(c) == CHOOSE f \in Lines : f <= c /\ c < f + U
IsOpen(id) == id \in DOMAIN world /\ world[id] = "Grass"
InputVelocity == heap[velocity]

\* C7: with a velocity of zero length the call returns the empty path,
\* for every position and world, without an error and without any read of
\* world.cells.
ZeroVelocityEmptyPath ==
  InputVelocity = Vec2(0, 0)
    => /\ pc \in {"start", "done"}
       /\ path = <<>>
       /\ queried = {}
       /\ last = "none"
       /\ pc = "start" => ENABLED ReturnEmpty

\* the empty path returned from a start strictly inside a blocked cell
ZeroVelocityEmptyPathWitness ==
  /\ Returned
  /\ InputVelocity = Vec2(0, 0)
  /\ path = <<>>
  /\ LET p == Position(cursor.position)
     IN /\ ~IsInteger(p.x) /\ ~IsInteger(p.y)
        /\ ~IsOpen(<<FloorOf(p.x), FloorOf(p.y)>>)

\* the cell index of coordinate c under a velocity component vc
CellOnAxis(c, vc) == IF vc < 0 /\ IsInteger(c) THEN c - U ELSE FloorOf(c)

\* C8: in every iteration the classified cell is, on each axis, the floor
\* of the coordinate, except that it is coordinate - 1 where the coordinate
\* is an integer and the input velocity is negative on that axis; the
\* signs are those of the input velocity, also after a wall-slide.
ClassifiedCell ==
  last # "none"
    => cell0 = << CellOnAxis(xy0[1], InputVelocity.x),
                  CellOnAxis(xy0[2], InputVelocity.y) >>

\* an iteration that follows a wall-slide which zeroed the x component of
\* a leftward velocity: x is an integer and the cell is still x - 1
ClassifiedCellWitness ==
  /\ last = "push" /\ Len(path) >= 2
  /\ path[Len(path) - 1].blockedBy # undefined
  /\ Position(path[Len(path) - 1].v).x = 0
  /\ InputVelocity.x < 0
  /\ IsInteger(xy0[1])
  /\ cell0[1] = xy0[1] - U

\* the distance from c to the next grid line strictly ahead of it
Ahead(c, step) ==
  IF step > 0
    THEN (CHOOSE g \in Lines : c < g /\ g <= c + U) - c
    ELSE c - (CHOOSE g \in Lines : g < c /\ c <= g + U)
\* the time to that line at speed |vc|
TimeToLine(c, step, vc) ==
  IF vc = 0 THEN Infinity ELSE (Ahead(c, step) * U) \div Abs(vc)
Least(a, b) == IF a <= b THEN a ELSE b

ExampleWorld ==
  /\ world = (<<0, 0>> :> "Grass" @@ <<U, 0>> :> "Stone" @@ <<0, U>> :> "Grass")
  /\ Position(cursor.position) = Vec2(U, U)
  /\ InputVelocity.x > InputVelocity.y /\ InputVelocity.y > 0

\* C10: at a corner whose classified cell is blocked, with |v.x| > |v.y|,
\* the x-slide cell (point.x, point.y - stepY) is read first; when it is
\* blocked and the y-slide cell (point.x - stepX, point.y) is open, v is
\* (0, velocity.y) and the cell is the y-slide cell, and the segment pushed
\* (when velocity.y is not zero) carries them.  In the world with (0,0)
\* open, (1,0) blocked, (0,1) open, (1,1) absent, from (1,1) with a
\* velocity up and to the right, x dominant, the path has a segment with
\* v.x = 0.
CornerFallsBackToY ==
  /\ /\ last # "none"
     /\ blockedBy # undefined
     /\ IsInteger(xy0[1]) /\ IsInteger(xy0[2])
     /\ Abs(InputVelocity.x) > Abs(InputVelocity.y)
     => LET xSlide == <<cell0[1], cell0[2] - stepY>>
            ySlide == <<cell0[1] - stepX, cell0[2]>>
        IN /\ Len(probes) >= 2 /\ probes[1] = cell0 /\ probes[2] = xSlide
           /\ ~IsOpen(xSlide) /\ IsOpen(ySlide)
                => /\ probes = <<cell0, xSlide, ySlide>>
                   /\ point = ySlide
                   /\ v # null
                   /\ Position(v) = Vec2(0, InputVelocity.y)
                   /\ InputVelocity.y # 0
                        => /\ last = "push"
                           /\ path[Len(path)].v = v
                           /\ path[Len(path)].point = ySlide
  /\ ExampleWorld /\ Returned
       => \E i \in Segments : Position(path[i].v).x = 0

\* the example: the path returned from the corner (1,1)
CornerFallsBackToYWitness ==
  /\ ExampleWorld /\ Returned
  /\ InputVelocity = Vec2(4 * U, 2 * U)
  /\ Len(path) = 1
  /\ Position(path[1].v) = Vec2(0, 2 * U)
  /\ path[1].point = <<0, U>>
  /\ path[1].blockedBy = <<U, U>>

\* the last iteration stood on a grid corner whose classified cell is blocked
AtBlockedCorner ==
  /\ last # "none"
  /\ blockedBy # undefined
  /\ IsInteger(xy0[1]) /\ IsInteger(xy0[2])

\* the two slide cells of the corner and the velocities they leave
XSlide == <<cell0[1], cell0[2] - stepY>>
YSlide == <<cell0[1] - stepX, cell0[2]>>
XFirst == Abs(InputVelocity.x) > Abs(InputVelocity.y)
FirstSlide == IF XFirst THEN XSlide ELSE YSlide
SecondSlide == IF XFirst THEN YSlide ELSE XSlide
FirstV == IF XFirst THEN Vec2(InputVelocity.x, 0) ELSE Vec2(0, InputVelocity.y)
SecondV == IF XFirst THEN Vec2(0, InputVelocity.y) ELSE Vec2(InputVelocity.x, 0)

\* C11: at a corner whose classified cell is blocked the slide cells are
\* read x then y when |v.x| > |v.y| and y then x otherwise, the tie
\* included; the first open one wins, the other axis is not used (the
\* second cell is not even read when the first is open), and the velocity
\* is the input velocity with the other component zeroed; a pushed segment
\* carries that velocity and cell.
CornerSlideOrder ==
  AtBlockedCorner
    => /\ Len(probes) >= 2 /\ probes[1] = cell0 /\ probes[2] = FirstSlide
       /\ IsOpen(FirstSlide)
            => /\ probes = <<cell0, FirstSlide>>
               /\ point = FirstSlide
               /\ v # null /\ Position(v) = FirstV
       /\ ~IsOpen(FirstSlide)
            => /\ probes = <<cell0, FirstSlide, SecondSlide>>
               /\ IsOpen(SecondSlide)
                    => /\ point = SecondSlide
                       /\ v # null /\ Position(v) = SecondV
       /\ last = "push"
            => /\ path[Len(path)].v = v
               /\ path[Len(path)].point = point
               /\ path[Len(path)].blockedBy = cell0

\* a corner met with |v.x| = |v.y| and both slide cells open: the y axis
\* wins and the segment has v.x = 0
CornerSlideOrderWitness ==
  /\ AtBlockedCorner /\ last = "push"
  /\ Abs(InputVelocity.x) = Abs(InputVelocity.y)
  /\ IsOpen(XSlide) /\ IsOpen(YSlide) /\ XSlide # YSlide
  /\ Position(path[Len(path)].v) = Vec2(0, InputVelocity.y)

\* the last iteration stood on exactly one grid line, in a blocked cell
AtBlockedEdgeX ==
  /\ last # "none" /\ blockedBy # undefined
  /\ IsInteger(xy0[1]) /\ ~IsInteger(xy0[2])
AtBlockedEdgeY ==
  /\ last # "none" /\ blockedBy # undefined
  /\ ~IsInteger(xy0[1]) /\ IsInteger(xy0[2])

\* the last iteration left the loop by the break, appending nothing
BrokeOff == last = "break" /\ Returned /\ SumT(path) = time0

\* what a blocked edge iteration does with the probed cell and the velocity
\* that is left: slide along the line, or leave the loop
EdgeSlide(probed, slideV) ==
  /\ probes = <<cell0, probed>>
  /\ IsOpen(probed)
       => /\ point = probed
          /\ v # null /\ Position(v) = slideV
          /\ IF slideV = Vec2(0, 0)
               THEN BrokeOff
               ELSE /\ last = "push"
                    /\ path[Len(path)].v = v
                    /\ path[Len(path)].point = probed
  /\ ~IsOpen(probed) => v = null /\ BrokeOff

\* C12: on exactly one grid line with the classified cell blocked, the cell
\* read is (point.x - stepX, point.y) when x is the integer, and an open
\* one gives the segment the velocity (0, velocity.y) and that cell; it is
\* (point.x, point.y - stepY) when y is the integer, with the velocity
\* (velocity.x, 0).  When the cell read is blocked, or the velocity left has
\* zero length, the loop is left and no segment is appended.
EdgeSlides ==
  /\ [](AtBlockedEdgeX
         => EdgeSlide(<<cell0[1] - stepX, cell0[2]>>,
                      Vec2(0, InputVelocity.y)))
  /\ [](AtBlockedEdgeY
         => EdgeSlide(<<cell0[1], cell0[2] - stepY>>,
                      Vec2(InputVelocity.x, 0)))
  /\ [][(AtBlockedEdgeX \/ AtBlockedEdgeY)' /\ last' = "break"
          => path' = path]_vars

\* a slide along a vertical line: the cell behind the line is open and the
\* segment runs along x = integer with the velocity (0, velocity.y)
EdgeSlidesWitness ==
  /\ AtBlockedEdgeX /\ last = "push"
  /\ InputVelocity.x # 0
  /\ point = <<cell0[1] - stepX, cell0[2]>>
  /\ Position(path[Len(path)].v) = Vec2(0, InputVelocity.y)

\* the four cells around the start are all blocked
StartWedged ==
  LET p == Position(cursor.position)
  IN /\ IsInteger(p.x) /\ IsInteger(p.y)
     /\ \A i, j \in {0, 1} : ~IsOpen(<<p.x - i * U, p.y - j * U>>)

\* C13: at a corner whose classified cell and both slide cells are blocked
\* the loop is left, no segment is appended and the path built so far is
\* returned; from a corner whose four surrounding cells are all blocked
\* every velocity of nonzero length gives the empty path, of duration 0.
WedgedCorner ==
  /\ [](AtBlockedCorner /\ ~IsOpen(XSlide) /\ ~IsOpen(YSlide)
         => v = null /\ BrokeOff)
  /\ [][AtBlockedCorner' /\ (~IsOpen(XSlide) /\ ~IsOpen(YSlide))'
          => path' = path /\ pc' = "done"]_vars
  /\ [](StartWedged /\ InputVelocity # Vec2(0, 0)
         => /\ pc # "error"
            /\ path = <<>> /\ SumT(path) = 0
            /\ pc = "loop" => ENABLED Iterate)

\* a walk that reached a wedged corner after a segment: the segment stays
WedgedCornerWitness ==
  /\ AtBlockedCorner /\ ~IsOpen(XSlide) /\ ~IsOpen(YSlide)
  /\ XSlide # cell0 /\ YSlide # cell0
  /\ Returned /\ Len(path) >= 1

\* the position the call was given has at least one integer coordinate
GridAlignedStart ==
  IsInteger(Position(cursor.position).x) \/ IsInteger(Position(cursor.position).y)

\* C14: from a start with at least one integer coordinate, for every
\* velocity and world, no iteration reaches the strict-interior branch:
\* the assertion of line 139 never throws, a blocked classified cell is
\* only ever met on a grid line, and every iteration starts on a grid line.
NoStrictInterior ==
  GridAlignedStart
    => /\ pc # "error" /\ last # "throw"
       /\ last # "none" /\ blockedBy # undefined
            => IsInteger(xy0[1]) \/ IsInteger(xy0[2])
       /\ pc = "loop" /\ time # PATH_TIME
            => IsInteger(x) \/ IsInteger(y)

\* a walk from a point on one grid line that, after two segments, met a
\* blocked cell on a single grid line and slid along it
NoStrictInteriorWitness ==
  /\ GridAlignedStart
  /\ ~IsInteger(Position(cursor.position).x)
  /\ Len(path) >= 3
  /\ last = "push" /\ blockedBy # undefined
  /\ ~IsInteger(xy0[1])

---------------------------------------------------------------------------
(* The projection as a function of its arguments: usePath by value *)

\* lines 43-203 repeated until the clock is at PATH_TIME (line 43), the
\* break (line 144) or the throw (line 139); positions are held by value,
\* u and (x, y) being equal throughout (lines 169-191)
RECURSIVE Walk(_, _, _, _, _)
Walk(w, vel, sx, sy, st) ==
  IF st.time = PATH_TIME THEN st
  ELSE
    LET pt0 == Classify(sx, sy, st.x, st.y)
        r == Resolution(w, vel, sx, sy, st.x, st.y, pt0)
        reads == <<toCellId(pt0)>> \o r.probes
        q == st.queried \cup {reads[i] : i \in 1..Len(reads)}
    IN IF r.thrown THEN [st EXCEPT !.thrown = TRUE, !.queried = q]
       ELSE IF r.isNull \/ LenIsZero(r.v) THEN [st EXCEPT !.queried = q]
       ELSE
         LET clip == Clip(st.time, MinT(TMax(r.v.x, sx, st.x),
                                        TMax(r.v.y, sy, st.y)))
             du == VecMul(r.v, clip.t)
             a == Vec2(st.x, st.y)
             b == Vec2(Snap(st.x + du.x), Snap(st.y + du.y))
         IN Walk(w, vel, sx, sy,
                 [x |-> b.x, y |-> b.y, time |-> clip.time,
                  path |-> Append(st.path,
                                  Segment(a, b, clip.t, r.v, r.point, r.blockedBy)),
                  queried |-> q, thrown |-> FALSE])

\* usePath(cursor, velocity, world), lines 31-205: the path, whether the
\* assertion threw, and the cell ids read
usePath(pos, vel, w) ==
  IF LenIsZero(vel)
    THEN [x |-> pos.x, y |-> pos.y, time |-> 0, path |-> <<>>,
          queried |-> {}, thrown |-> FALSE]
    ELSE Walk(w, vel, Sign(vel.x), Sign(vel.y),
              [x |-> pos.x, y |-> pos.y, time |-> 0, path |-> <<>>,
               queried |-> {}, thrown |-> FALSE])

\* the segments of the running call with their objects read from the heap
PathByValue ==
  [i \in Segments |->
     [path[i] EXCEPT !.a = Position(path[i].a), !.b = Position(path[i].b),
                     !.v = Position(path[i].v)]]

\* the function gives what the step-by-step call gives
WalkAgrees ==
  Ended
    => LET res == usePath(Position(cursor.position), InputVelocity, world)
       IN /\ res.path = PathByValue
          /\ res.thrown = (pc = "error")
          /\ res.queried = queried

\* the world with an explicit Stone entry at every id of ids it lacks
WithStone(w, ids) ==
  [id \in DOMAIN w \cup ids |-> IF id \in DOMAIN w THEN w[id] ELSE "Stone"]

\* C15: an absent entry is treated exactly like Stone: the path of a call
\* (and whether it throws) is the path projected in the world that has an
\* explicit Stone entry at every coordinate the call read and found absent.
AbsentIsStone ==
  Ended
    => LET res == usePath(Position(cursor.position), InputVelocity,
                          WithStone(world, queried))
       IN /\ res.path = PathByValue
          /\ res.thrown = (pc = "error")
          /\ res.queried = queried
          /\ queried \subseteq DOMAIN WithStone(world, queried)

\* a returned path of two segments whose walk read an absent classified
\* cell and an absent slide cell
AbsentIsStoneWitness ==
  /\ Returned /\ Len(path) >= 2
  /\ path[Len(path)].blockedBy # undefined
  /\ path[Len(path)].blockedBy \notin DOMAIN world
  /\ \E id \in queried \ DOMAIN world : id # path[Len(path)].blockedBy

---------------------------------------------------------------------------
(* move: the integration of a path over an elapsed time (app.tsx) *)

\* the variables of one projection call
callVars == <<cursor, velocity, heap, pc, stepX, stepY, x, y, u, time, path,
              cell0, point, v, blockedBy, t, tRaw, time0, xy0, probes,
              queried, last, exact>>

\* no projection call is being stepped through
CallIdle ==
  /\ cursor = [position |-> null] /\ velocity = null /\ heap = <<>>
  /\ pc = "start"
  /\ stepX = 0 /\ stepY = 0 /\ x = 0 /\ y = 0 /\ u = null /\ time = 0
  /\ path = <<>>
  /\ cell0 = undefined /\ point = undefined /\ v = null
  /\ blockedBy = undefined /\ t = 0 /\ tRaw = 0 /\ time0 = 0
  /\ xy0 = undefined /\ probes = <<>> /\ queried = {}
  /\ last = "none" /\ exact = TRUE

\* faulty variant: a wall-slide part gives the cell that blocked it
ConsumeBlockedCell(part, elapsed, pt) ==
  LET cell == IF part.blockedBy # undefined THEN part.blockedBy ELSE part.point
  IN IF elapsed < part.t
       THEN [position |-> VecAdd(part.a, VecMul(part.v, elapsed)),
             elapsed |-> 0, point |-> cell]
       ELSE [position |-> part.b, elapsed |-> elapsed - part.t, point |-> cell]

\* faulty variant: a part that is consumed whole is extrapolated as well
ConsumeExtrapolated(part, elapsed, pt) ==
  [position |-> VecAdd(part.a, VecMul(part.v, elapsed)),
   elapsed |-> IF elapsed < part.t THEN 0 ELSE elapsed - part.t,
   point |-> part.point]

\* faulty variant: the time left is not zeroed by a partial part
ConsumeKeepsGoing(part, elapsed, pt) ==
  IF elapsed < part.t
    THEN [position |-> VecAdd(part.a, VecMul(part.v, elapsed)),
          elapsed |-> elapsed, point |-> part.point]
    ELSE [position |-> part.b, elapsed |-> elapsed - part.t,
          point |-> part.point]

\* faulty variant: a partial part leaves the cell as it was
ConsumeKeepsCell(part, elapsed, pt) ==
  IF elapsed < part.t
    THEN [position |-> VecAdd(part.a, VecMul(part.v, elapsed)),
          elapsed |-> 0, point |-> pt]
    ELSE [position |-> part.b, elapsed |-> elapsed - part.t,
          point |-> part.point]

\* app.tsx lines 54-65, the body of the loop: the part is walked for the
\* time left or to its end; pt is the cell before (the body overwrites it)
Consume(part, elapsed, pt) ==
  IF elapsed < part.t
    THEN [position |-> VecAdd(part.a, VecMul(part.v, elapsed)),
          elapsed |-> 0, point |-> part.point]
    ELSE [position |-> part.b, elapsed |-> elapsed - part.t,
          point |-> part.point]

\* faulty variant: the loop goes on while elapsed >= 0
RECURSIVE moveLoopNotNegative(_, _, _, _, _)
moveLoopNotNegative(segs, i, elapsed, position, pt) ==
  IF i <= Len(segs) /\ elapsed >= 0
    THEN LET c == Consume(segs[i], elapsed, pt)
         IN moveLoopNotNegative(segs, i + 1, c.elapsed, c.position, c.point)
    ELSE [position |-> position, point |-> pt, parts |-> i - 1]

\* app.tsx lines 53-68: for (i = 0; i < path.length && elapsed > 0; i++);
\* parts is the number of parts the loop went through
RECURSIVE moveLoop(_, _, _, _, _)
moveLoop(segs, i, elapsed, position, pt) ==
  IF i <= Len(segs) /\ elapsed > 0
    THEN LET c == Consume(segs[i], elapsed, pt)
         IN moveLoop(segs, i + 1, c.elapsed, c.position, c.point)
    ELSE [position |-> position, point |-> pt, parts |-> i - 1]

\* what move gives back: same = the player object it was given
Unmoved(pl, thrown) ==
  [position |-> pl.position, point |-> pl.point, parts |-> 0,
   same |-> ~thrown, thrown |-> thrown]

\* faulty variant: every elapsed time that is not positive returns the player
moveGuardNotPositive(pl, segs, elapsed) ==
  IF ~allowMove \/ Len(segs) = 0 \/ elapsed <= 0 THEN Unmoved(pl, FALSE)
  ELSE moveLoop(segs, 1, elapsed, pl.position, pl.point) @@
       [same |-> FALSE, thrown |-> FALSE]

\* app.tsx lines 39-69
move(pl, segs, elapsed) ==
  IF ~allowMove \/ Len(segs) = 0 \/ elapsed = 0 THEN Unmoved(pl, FALSE)
  ELSE IF ~(elapsed > 0) THEN Unmoved(pl, TRUE)
  ELSE moveLoop(segs, 1, elapsed, pl.position, pl.point) @@
       [same |-> FALSE, thrown |-> FALSE]

\* the worlds of the calls of move: every cell of the block at the origin
\* is Grass or Stone, every other cell is absent
MoveWorlds == [Block(<<0, 0>>) -> {"Grass", "Stone"}]

\* the elapsed times of the calls, in seconds: negative, zero, within and
\* at the end of a part, and beyond PATH_TIME
ElapsedTimes == {k * (U \div 16) : k \in {-1, 0, 1, 2, 3, 4, 6, 8, 9}}

MoveInit ==
  /\ world \in MoveWorlds
  /\ \E p \in Starts(<<0, 0>>) :
       player = [position |-> p, point |-> <<Floor(p.x), Floor(p.y)>>]
  /\ \E vx, vy \in Components : appVelocity = Vec2(vx, vy)
  /\ allowMove \in BOOLEAN
  /\ calls = <<>>
  /\ CallIdle
  /\ FrameIdle
  /\ VecIdle

\* one call move(player, path, elapsed) with the path projected from the
\* player (app.tsx line 208) and the state update of line 95
MoveCall ==
  /\ calls = <<>>
  /\ \E proj \in {usePath(player.position, appVelocity, world)} :
       /\ ~proj.thrown
       /\ \E elapsed \in ElapsedTimes :
          \E res \in {move(player, proj.path, elapsed)} :
            /\ calls' = <<[player |-> player, path |-> proj.path,
                           elapsed |-> elapsed, velocity |-> appVelocity,
                           result |-> res]>>
            /\ player' = IF res.thrown THEN player
                         ELSE [position |-> res.position, point |-> res.point]
  /\ UNCHANGED <<world, appVelocity, allowMove>>
  /\ UNCHANGED callVars
  /\ UNCHANGED vecVars
  /\ UNCHANGED frameVars

MoveNext == MoveCall

MoveSpec == MoveInit /\ [][MoveNext]_vars

---------------------------------------------------------------------------
(* Properties of move *)

Calls == 1..Len(calls)

\* the player after the call is the player the call was given
PlayerUnchanged(c) ==
  /\ c.result.same /\ ~c.result.thrown
  /\ c.result.position = c.player.position /\ c.result.point = c.player.point
  /\ player = c.player

\* no product of move had to round
MoveArithmeticExact ==
  \A n \in Calls : \A i \in 1..Len(calls[n].path) :
    LET r == calls[n].elapsed - SumT(SubSeq(calls[n].path, 1, i - 1))
    IN 0 < r /\ r < calls[n].path[i].t
         => MulExact(calls[n].path[i].v.x, r) /\ MulExact(calls[n].path[i].v.y, r)

\* C16 as stated: move returns the player it was given whenever the path
\* is empty, or elapsed <= 0, or ALLOW_MOVE is false, and throws in none of
\* these cases.
MoveNoOpNotPositive ==
  \A n \in Calls :
    calls[n].path = <<>> \/ calls[n].elapsed <= 0 \/ ~allowMove
      => PlayerUnchanged(calls[n])

\* C16, amended: move returns the player it was given, without an error,
\* whenever the path is empty, or elapsed is 0, or ALLOW_MOVE is false; a
\* negative elapsed with a non-empty path and ALLOW_MOVE true fails the
\* assertion invariant(elapsed > 0) and nothing is returned.
MoveNoOp ==
  \A n \in Calls :
    /\ calls[n].path = <<>> \/ calls[n].elapsed = 0 \/ ~allowMove
         => PlayerUnchanged(calls[n])
    /\ calls[n].path # <<>> /\ calls[n].elapsed < 0 /\ allowMove
         => calls[n].result.thrown /\ player = calls[n].player

\* a call with a negative elapsed and a path of two segments that threw
MoveNoOpWitness ==
  /\ calls # <<>> /\ allowMove
  /\ calls[1].elapsed < 0 /\ Len(calls[1].path) >= 2
  /\ calls[1].result.thrown

\* C17: with a non-empty path and elapsed greater than the sum of the
\* durations, move returns the last segment's b and the last segment's
\* cell, whatever the excess.
MoveStopsAtEnd ==
  \A n \in Calls :
    LET c == calls[n]
    IN allowMove /\ c.path # <<>> /\ c.elapsed > SumT(c.path)
         => /\ ~c.result.thrown /\ ~c.result.same
            /\ c.result.position = c.path[Len(c.path)].b
            /\ c.result.point = c.path[Len(c.path)].point
            /\ player = [position |-> c.path[Len(c.path)].b,
                         point |-> c.path[Len(c.path)].point]

\* a path of two segments that ended early at a wall, and an elapsed time
\* beyond its duration
MoveStopsAtEndWitness ==
  /\ calls # <<>> /\ allowMove
  /\ Len(calls[1].path) >= 2
  /\ SumT(calls[1].path) < PATH_TIME
  /\ calls[1].elapsed > PATH_TIME
  /\ player.position = calls[1].path[Len(calls[1].path)].b

\* the time left for segment k of call c, after segments 1..k-1
TimeLeft(c, k) == c.elapsed - SumT(SubSeq(c.path, 1, k - 1))
\* segment k of call c is entered and not finished
Within(c, k) ==
  /\ allowMove /\ k \in 1..Len(c.path)
  /\ 0 < TimeLeft(c, k) /\ TimeLeft(c, k) < c.path[k].t

\* C18: when the time left after the segments before k is r with
\* 0 < r < segments[k].t, move returns segments[k].a + segments[k].v * r
\* and goes through no later segment.
MovePartial ==
  \A n \in Calls : \A k \in 1..Len(calls[n].path) :
    LET c == calls[n]
    IN Within(c, k)
         => /\ ~c.result.thrown
            /\ c.result.position
                 = VecAdd(c.path[k].a, VecMul(c.path[k].v, TimeLeft(c, k)))
            /\ c.result.parts = k
            /\ player.position = c.result.position

\* a call that stopped within the second of three segments
MovePartialWitness ==
  /\ calls # <<>>
  /\ Len(calls[1].path) >= 3
  /\ Within(calls[1], 2)
  /\ calls[1].result.position # calls[1].path[2].a
  /\ calls[1].result.position # calls[1].path[2].b

\* the elapsed time of call c is exactly the duration of its segments 1..j
AtEndOf(c, j) ==
  /\ allowMove /\ j \in 1..Len(c.path)
  /\ c.elapsed = SumT(SubSeq(c.path, 1, j))

\* C29: when elapsed is exactly the sum of the durations of the first j
\* segments (j >= 1), move returns the end point b and the cell of the last
\* of them, and the segment after them is not visited.
MoveAtBoundary ==
  \A n \in Calls : \A j \in 1..Len(calls[n].path) :
    LET c == calls[n]
    IN AtEndOf(c, j)
         => /\ ~c.result.thrown /\ ~c.result.same
            /\ c.result.position = c.path[j].b
            /\ c.result.point = c.path[j].point
            /\ c.result.parts = j
            /\ player = [position |-> c.path[j].b, point |-> c.path[j].point]

\* a call whose elapsed time ended with the second of three segments, the
\* third segment lying in another cell
MoveAtBoundaryWitness ==
  /\ calls # <<>>
  /\ Len(calls[1].path) >= 3
  /\ AtEndOf(calls[1], 2)
  /\ calls[1].path[3].point # calls[1].path[2].point
  /\ player.point = calls[1].path[2].point

---------------------------------------------------------------------------
(* The frame loop: App, useMovePlayer and React (app.tsx lines 71-103,     *)
(* 196-210).  React runs the updaters given to setPlayer in the next       *)
(* render, and runs the effects of a committed render some time after the  *)
(* commit and before the next render; animation frames and pointer events  *)
(* arrive in between in any order.  debug is false throughout.             *)

MaxFrames == 3

\* the time between two animation frames, in milliseconds: 62.5
FrameInterval == 125 * (U \div 2)

\* the velocities the drag can give
FrameVelocities == {Vec2(0, 0), Vec2(4 * U, 0), Vec2(-(2 * U), 4 * U)}

\* the positions the player starts from: the initial player of lines
\* 138-162, at (0, 0), and a stored one in the middle of a cell
FramePlayers == {Vec2(0, 0), Vec2(Half, Half)}

FrameInit ==
  /\ world \in MoveWorlds
  /\ allowMove = TRUE
  /\ \E p \in FramePlayers, v0 \in FrameVelocities :
     \E proj \in {usePath(p, v0, world)} :
       /\ ~proj.thrown
       /\ player = [position |-> p, point |-> <<Floor(p.x), Floor(p.y)>>]
       /\ appVelocity = v0 /\ dragVelocity = v0
       /\ appPath = proj.path
  /\ calls = <<>> /\ updates = <<>>
  /\ effectsPending = TRUE /\ effect = <<>> /\ handle = FALSE
  /\ lastStep = null /\ now = FrameInterval /\ frames = 0
  /\ appError = FALSE
  /\ debug = FALSE /\ since = null
  /\ CallIdle
  /\ VecIdle

\* faulty variant: lastStep.current is not reset when the loop stops
EffectLastStepKept(dbg, p, ls, tm) == IF ls = null THEN tm ELSE ls

\* lines 77-88: lastStep.current after the body of the effect
EffectLastStep(dbg, p, ls, tm) ==
  IF dbg THEN null
  ELSE IF Len(p) = 0 THEN null
  ELSE IF ls = null THEN tm ELSE ls

\* lines 75-102: the cleanup of the effect in force (line 100) and the
\* effect of the last render, with its path and its debug; a loop that
\* starts where none was running starts its time at now
FlushEffects ==
  /\ ~appError /\ effectsPending
  /\ effectsPending' = FALSE
  /\ lastStep' = EffectLastStep(debug, appPath, lastStep, now)
  /\ IF debug \/ appPath = <<>>
       THEN /\ effect' = <<>>
            /\ handle' = FALSE
            /\ since' = null
       ELSE /\ effect' = <<appPath>>
            /\ handle' = TRUE
            /\ since' = IF handle THEN since ELSE now
  /\ UNCHANGED <<world, player, appVelocity, allowMove, calls, dragVelocity,
                 appPath, updates, now, frames, appError, debug>>
  /\ UNCHANGED callVars
  /\ UNCHANGED vecVars

\* lines 90-97: step, the animation frame callback of the effect in force
Frame ==
  /\ ~appError /\ handle /\ frames < MaxFrames
  /\ frames' = frames + 1
  /\ now' = now + FrameInterval
  /\ since' = now'
  /\ IF lastStep = null
       THEN /\ appError' = TRUE
            /\ UNCHANGED <<lastStep, updates, handle>>
       ELSE /\ appError' = FALSE
            /\ lastStep' = now'
            /\ updates' = Append(updates,
                 [path |-> effect[1],
                  elapsed |-> Div(now' - lastStep, 1000 * U),
                  velocity |-> dragVelocity,
                  at |-> now'])
            /\ handle' = TRUE
  /\ UNCHANGED <<world, player, appVelocity, allowMove, calls, dragVelocity,
                 appPath, effectsPending, effect, debug>>
  /\ UNCHANGED callVars
  /\ UNCHANGED vecVars

\* a pointer event changes the drag, and with it the velocity that
\* useVelocity gives in the next render (lines 205-206)
Drag ==
  /\ ~appError /\ dragVelocity = appVelocity
  /\ \E vv \in FrameVelocities \ {dragVelocity} : dragVelocity' = vv
  /\ UNCHANGED <<world, player, appVelocity, allowMove, calls, appPath,
                 updates, effectsPending, effect, handle, lastStep, now,
                 frames, appError, debug, since>>
  /\ UNCHANGED callVars
  /\ UNCHANGED vecVars

\* line 95: React runs the queued updaters (prev) => move(prev, path,
\* elapsed) in order, each with the path its step closed over; the log
\* keeps, with each call, the velocity of the drag when its step ran
RECURSIVE ApplyUpdates(_, _, _)
ApplyUpdates(pl, ups, log) ==
  IF ups = <<>> THEN [player |-> pl, log |-> log, thrown |-> FALSE]
  ELSE
    LET res == move(pl, Head(ups).path, Head(ups).elapsed)
        rec == [player |-> pl, path |-> Head(ups).path,
                elapsed |-> Head(ups).elapsed,
                velocity |-> Head(ups).velocity,
                result |-> res]
    IN IF res.thrown
         THEN [player |-> pl, log |-> Append(log, rec), thrown |-> TRUE]
         ELSE ApplyUpdates(IF res.same THEN pl
                           ELSE [position |-> res.position, point |-> res.point],
                           Tail(ups), Append(log, rec))

\* lines 196-210: a render of App: the state updates are applied, usePath
\* is recomputed when the player object or the velocity changed (the
\* useMemo of use-path.ts line 206), and a new path makes the effect of
\* useMovePlayer due again (line 102)
Render ==
  /\ ~appError /\ ~effectsPending
  /\ updates # <<>> \/ dragVelocity # appVelocity
  /\ \E r \in {ApplyUpdates(player, updates, <<>>)} :
     \E changed \in {\/ dragVelocity # appVelocity
                     \/ \E n \in 1..Len(r.log) : ~r.log[n].result.same} :
     \E proj \in {IF changed /\ ~r.thrown
                    THEN usePath(r.player.position, dragVelocity, world)
                    ELSE [path |-> appPath, thrown |-> FALSE]} :
       /\ calls' = r.log
       /\ updates' = <<>>
       /\ player' = r.player
       /\ appVelocity' = dragVelocity
       /\ appError' = (r.thrown \/ proj.thrown)
       /\ appPath' = IF proj.thrown THEN appPath ELSE proj.path
       /\ effectsPending' = (changed /\ ~r.thrown /\ ~proj.thrown)
  /\ UNCHANGED <<world, allowMove, dragVelocity, effect, handle, lastStep,
                 now, frames, debug, since>>
  /\ UNCHANGED callVars
  /\ UNCHANGED vecVars

FrameNext == FlushEffects \/ Frame \/ Drag \/ Render

FrameSpec == FrameInit /\ [][FrameNext]_vars

---------------------------------------------------------------------------
(* Properties of the frame loop *)

\* C20: under every interleaving of animation frames, state updates,
\* renders and effect runs, each move applied to the player uses the path
\* projected from the player it is applied to, with the world and with the
\* velocity that was current when its frame callback ran; a path captured
\* by an earlier frame callback is never applied once the player or the
\* velocity has changed.
FreshPathApplied ==
  \A n \in Calls :
    /\ ~usePath(calls[n].player.position, calls[n].velocity, world).thrown
    /\ calls[n].path
         = usePath(calls[n].player.position, calls[n].velocity, world).path

\* the frame loop did apply moves: two frames whose updaters ran in one
\* render, the second on the player the first returned
FreshPathAppliedWitness ==
  /\ Len(calls) = 2
  /\ ~calls[1].result.same
  /\ calls[2].player.position = calls[1].result.position
  /\ calls[2].player.position # calls[1].player.position

---------------------------------------------------------------------------
(* useMovePlayer on its own (app.tsx lines 71-103): App renders it with    *)
(* any path and any debug, time passes with and without animation frames.  *)

\* the paths App gives: the empty one and two projected ones
LoopWorld == [id \in Block(<<0, 0>>) |-> "Grass"]
LoopPaths ==
  {<<>>} \cup {usePath(p, Vec2(4 * U, 0), LoopWorld).path : p \in FramePlayers}

LoopInit ==
  /\ world = LoopWorld /\ player = null /\ appVelocity = null
  /\ allowMove = TRUE /\ calls = <<>>
  /\ dragVelocity = null
  /\ appPath \in LoopPaths /\ debug \in BOOLEAN
  /\ updates = <<>>
  /\ effectsPending = TRUE /\ effect = <<>> /\ handle = FALSE
  /\ lastStep = null /\ since = null
  /\ now = FrameInterval /\ frames = 0
  /\ appError = FALSE
  /\ CallIdle
  /\ VecIdle

\* lines 201-210: App renders with another path or another debug; React
\* has run the queued updaters, which calls keeps from then on, and the
\* effect is due again (line 102)
SetProps ==
  /\ ~appError /\ ~effectsPending
  /\ \E p \in LoopPaths, d \in BOOLEAN :
       /\ <<p, d>> # <<appPath, debug>>
       /\ appPath' = p
       /\ debug' = d
  /\ updates' = <<>>
  /\ calls' = calls \o updates
  /\ effectsPending' = TRUE
  /\ UNCHANGED <<world, player, appVelocity, allowMove, dragVelocity,
                 effect, handle, lastStep, now, frames, appError, since>>
  /\ UNCHANGED callVars
  /\ UNCHANGED vecVars

\* time passes and no animation frame callback runs
Tick ==
  /\ ~appError
  /\ now < (MaxFrames + 1) * FrameInterval
  /\ now' = now + FrameInterval
  /\ UNCHANGED <<world, player, appVelocity, allowMove, calls, dragVelocity,
                 appPath, updates, effectsPending, effect, handle, lastStep,
                 frames, appError, debug, since>>
  /\ UNCHANGED callVars
  /\ UNCHANGED vecVars

LoopNext == FlushEffects \/ Frame \/ SetProps \/ Tick

LoopSpec == LoopInit /\ [][LoopNext]_vars

\* a step of the frame callback: it gave setPlayer one more updater
StepRan == Len(updates') = Len(updates) + 1

\* C30: whenever a frame step runs lastStep is non-null, so the assertion
\* never fails, and its elapsed is the time since the previous step of the
\* running loop or since the loop was started or restarted: the effect of
\* an empty path or of debug resets lastStep, so the first elapsed after
\* resuming leaves out the paused interval, and the effect of another
\* non-empty path keeps lastStep, so no running time is dropped.
ElapsedIsRunningTime ==
  [][/\ ~appError'
     /\ lastStep' = since'
     /\ StepRan
          => /\ lastStep # null /\ since # null
             /\ updates'[Len(updates')].elapsed = Div(now' - since, 1000 * U)
     /\ ~effectsPending' /\ (debug' \/ appPath' = <<>>)
          => lastStep' = null /\ ~handle'
     /\ ~effectsPending' /\ ~debug' /\ appPath' # <<>>
          => lastStep' # null /\ handle']_vars

\* the second frame callback ran three intervals after the first, and its
\* elapsed is one interval: the loop was stopped in between and started
\* again one interval before
ElapsedIsRunningTimeWitness ==
  /\ Len(calls) = 1 /\ Len(updates) = 1
  /\ updates[1].at = calls[1].at + 3 * FrameInterval
  /\ updates[1].elapsed = Div(FrameInterval, 1000 * U)

---------------------------------------------------------------------------
(* Frames in sequence: in every frame the path is projected from the       *)
(* current player with the velocity of the moment (app.tsx line 208) and   *)
(* move is applied to that player with the elapsed time (line 95).         *)

\* positions are followed on the lattice of 1 / 2^FineBits of a cell
FineBits == 2
Lattice == U \div (2 ^ FineBits)
OnLattice(p) == p.x % Lattice = 0 /\ p.y % Lattice = 0

\* the elapsed times of the frames, in seconds, all positive: within a
\* part, at the end of a part and beyond PATH_TIME
RoamTimes == {k * (U \div 16) : k \in {1, 2, 4, 9}}

\* the positions of the block at the origin, its border included
RoamPositions ==
  {Vec2(i * Lattice, j * Lattice) : i, j \in 0..(2 * (2 ^ FineBits))}

\* the player starts in the closed square of an open cell, and its point
\* names a cell that world.cells holds
RoamInit ==
  /\ world \in MoveWorlds
  /\ \E p \in RoamPositions, pt \in DOMAIN world :
       /\ \E id \in DOMAIN world : world[id] = "Grass" /\ InClosedCell(p, id)
       /\ player = [position |-> p, point |-> pt]
  /\ appVelocity = Vec2(0, 0)
  /\ allowMove = TRUE
  /\ calls = <<>>
  /\ CallIdle
  /\ FrameIdle
  /\ VecIdle

\* one frame: usePath(player, velocity, world) of line 208, which may throw,
\* and the update (prev) => move(prev, path, elapsed) of line 95; frames
\* counts the frames up to MaxFrames
ProjectAndMove ==
  /\ ~appError
  /\ \E vx, vy \in Components :
     \E proj \in {usePath(player.position, Vec2(vx, vy), world)} :
       /\ appError' = proj.thrown
       /\ IF proj.thrown
            THEN UNCHANGED <<player, frames>>
            ELSE \E elapsed \in RoamTimes :
                 \E res \in {move(player, proj.path, elapsed)} :
                   /\ OnLattice(res.position)
                   /\ player' = [position |-> res.position, point |-> res.point]
                   /\ frames' = IF frames < MaxFrames THEN frames + 1 ELSE frames
  /\ UNCHANGED <<world, appVelocity, allowMove, calls, dragVelocity, appPath,
                 updates, effectsPending, effect, handle, lastStep, now,
                 debug, since>>
  /\ UNCHANGED callVars
  /\ UNCHANGED vecVars

RoamNext == ProjectAndMove

RoamSpec == RoamInit /\ [][RoamNext]_vars

\* the position is off both grid lines, in a cell that is Stone or absent
StrictlyInsideBlocked(p) ==
  /\ ~IsInteger(p.x) /\ ~IsInteger(p.y)
  /\ ~IsOpen(<<FloorOf(p.x), FloorOf(p.y)>>)

PlayerCellDefined == Lookup(world, toCellId(player.point)) # NoCell

\* after MaxFrames frames the player is in a cell other than the floor of
\* its position, next to a coordinate that world.cells does not hold
PlayerCellDefinedWitness ==
  /\ frames = MaxFrames
  /\ player.position.x = 2 * U
  /\ player.point = <<U, Floor(player.position.y)>>
  /\ <<2 * U, Floor(player.position.y)>> \notin DOMAIN world

---------------------------------------------------------------------------
(* Further properties of the projected path *)

\* the call was given a position with both coordinates non-integer, in a
\* cell that is Stone or absent, and a velocity of nonzero length
InteriorBlockedStart ==
  LET p == Position(cursor.position)
  IN /\ ~IsInteger(p.x) /\ ~IsInteger(p.y)
     /\ ~IsOpen(<<FloorOf(p.x), FloorOf(p.y)>>)
     /\ InputVelocity # Vec2(0, 0)

\* C21: a call with a velocity of nonzero length from a position with both
\* coordinates non-integer in a blocked (Stone or absent) cell aborts at
\* the assertion in its first iteration, before any segment is appended,
\* and never returns a path.
InteriorStartAborts ==
  InteriorBlockedStart
    => /\ ~Returned
       /\ path = <<>>
       /\ pc = "loop" => last = "none" /\ time = 0 /\ ENABLED Iterate
       /\ pc = "error" => last = "throw" /\ blockedBy = cell0
       /\ last \in {"none", "throw"}

\* the call that threw from the middle of an absent cell
InteriorStartAbortsWitness ==
  /\ InteriorBlockedStart
  /\ pc = "error" /\ last = "throw"
  /\ cell0 \notin DOMAIN world

\* the objects that exist before a step and after it hold the same values
ObjectsKept == \A ref \in DOMAIN heap : heap'[ref] = heap[ref]

\* the segment a step pushed
Pushed == path'[Len(path')]

SnappedFrom(c, e) ==
  \/ c = e
  \/ c = Round(e) /\ Abs(e - Round(e)) <= EPSILON

\* C25: every segment satisfies b = a + v * t with its own v and its own
\* (possibly truncated) t; the only deviation is the snap of a coordinate
\* of b that lies within machine epsilon of an integer to that integer.
SegmentEndpoint ==
  \A i \in Segments :
    LET e == VecAdd(Position(path[i].a),
                    VecMul(Position(path[i].v), path[i].t))
    IN /\ SnappedFrom(Position(path[i].b).x, e.x)
       /\ SnappedFrom(Position(path[i].b).y, e.y)
       /\ MulExact(Position(path[i].v).x, path[i].t)
       /\ MulExact(Position(path[i].v).y, path[i].t)

\* a returned path with a wall-slide segment, which has a velocity of its
\* own, whose last segment was truncated by the budget and ends off the grid
SegmentEndpointWitness ==
  /\ Returned /\ last = "push" /\ t < tRaw
  /\ \E i \in Segments : Position(path[i].v) # InputVelocity
  /\ \E c \in {Position(path[Len(path)].b)} :
       ~IsInteger(c.x) \/ ~IsInteger(c.y)

\* the cell the start of segment i was classified into
ClassifiedAt(i) ==
  Classify(stepX, stepY, Position(path[i].a).x, Position(path[i].a).y)

\* sv is the input velocity with its nonzero x (y) component set to zero and
\* the other component kept
ZeroedX(sv) == InputVelocity.x # 0 /\ sv = Vec2(0, InputVelocity.y)
ZeroedY(sv) == InputVelocity.y # 0 /\ sv = Vec2(InputVelocity.x, 0)

\* C28: for every segment, blockedBy is absent exactly when the segment's
\* velocity equals the input velocity and its cell is the classified cell;
\* blockedBy is present exactly when one nonzero component of the input
\* velocity has been set to zero and the other kept, and then blockedBy is
\* the blocked classified cell and the segment's cell is the open cell
\* orthogonally adjacent to it, one step away on exactly one axis.
BlockedByMeaning ==
  \A i \in Segments :
    LET sv == Position(path[i].v)
        pt == path[i].point
        cls == ClassifiedAt(i)
    IN /\ path[i].blockedBy = undefined
            <=> sv = InputVelocity /\ pt = cls
       /\ path[i].blockedBy # undefined <=> ZeroedX(sv) \/ ZeroedY(sv)
       /\ path[i].blockedBy = undefined => path[i].v = velocity
       /\ path[i].blockedBy # undefined
            => /\ path[i].blockedBy = cls
               /\ ~IsOpen(cls)
               /\ IsOpen(pt)
               /\ ZeroedX(sv) => pt = <<cls[1] - stepX, cls[2]>>
               /\ ZeroedY(sv) => pt = <<cls[1], cls[2] - stepY>>
               /\ \/ Abs(pt[1] - cls[1]) = U /\ pt[2] = cls[2]
                  \/ pt[1] = cls[1] /\ Abs(pt[2] - cls[2]) = U

\* a returned path with an unblocked segment, a slide along a horizontal
\* line (y set to zero) and a slide along a vertical line (x set to zero)
BlockedByMeaningWitness ==
  /\ Returned
  /\ \E i, j, k \in Segments :
       /\ path[i].blockedBy = undefined
       /\ path[j].blockedBy # undefined /\ ZeroedY(Position(path[j].v))
       /\ path[k].blockedBy # undefined /\ ZeroedX(Position(path[k].v))

---------------------------------------------------------------------------
(* Vec2 with the non-finite numbers (vec2.ts).  A number is finite, with   *)
(* its value in units of 1/U, or NaN, or an infinity with its sign; a      *)
(* finite result beyond MAX_VALUE overflows to the infinity of its sign.   *)
(* The sign of zero is not kept.                                           *)

\* Number.MAX_VALUE at the scale of the model: 16.0
MAX_VALUE == 16 * U

NaN == [k |-> "nan", n |-> 0]
PosInf == [k |-> "inf", n |-> 1]
NegInf == [k |-> "inf", n |-> -1]
Fin(n) == IF n > MAX_VALUE THEN PosInf
          ELSE IF n < -MAX_VALUE THEN NegInf
          ELSE [k |-> "fin", n |-> n]

\* Number.isNaN, Number.isFinite
IsNaN(a) == a.k = "nan"
IsFinite(a) == a.k = "fin"
SignOf(a) == IF a.n < 0 THEN -1 ELSE 1
Inf(sgn) == IF sgn < 0 THEN NegInf ELSE PosInf

\* a + b, a - b, a * b, a / b of IEEE 754
NumNeg(a) == [a EXCEPT !.n = -a.n]
NumAdd(a, b) ==
  IF IsNaN(a) \/ IsNaN(b) THEN NaN
  ELSE IF a.k = "inf" /\ b.k = "inf" THEN (IF a.n = b.n THEN a ELSE NaN)
  ELSE IF a.k = "inf" THEN a
  ELSE IF b.k = "inf" THEN b
  ELSE Fin(a.n + b.n)
NumSub(a, b) == NumAdd(a, NumNeg(b))
NumMul(a, b) ==
  IF IsNaN(a) \/ IsNaN(b) THEN NaN
  ELSE IF a.k = "inf" \/ b.k = "inf"
    THEN (IF a.n = 0 \/ b.n = 0 THEN NaN ELSE Inf(SignOf(a) * SignOf(b)))
  ELSE Fin(Mul(a.n, b.n))
NumDiv(a, b) ==
  IF IsNaN(a) \/ IsNaN(b) THEN NaN
  ELSE IF a.k = "inf" THEN (IF b.k = "inf" THEN NaN
                            ELSE Inf(SignOf(a) * SignOf(b)))
  ELSE IF b.k = "inf" THEN Fin(0)
  ELSE IF b.n = 0 THEN (IF a.n = 0 THEN NaN ELSE Inf(SignOf(a)))
  ELSE Fin(Div(a.n, b.n))

\* a % b: NaN for an infinite dividend or a zero divisor, the dividend for
\* an infinite divisor
NumRem(a, b) ==
  IF IsNaN(a) \/ IsNaN(b) THEN NaN
  ELSE IF a.k = "inf" THEN NaN
  ELSE IF b.k = "inf" THEN a
  ELSE IF b.n = 0 THEN NaN
  ELSE Fin(JsRem(a.n, b.n))

\* Math.floor and Math.sqrt (the root is rounded down to the resolution)
NumFloor(a) == IF IsFinite(a) THEN Fin(Floor(a.n)) ELSE a
NumSqrt(a) ==
  IF IsNaN(a) THEN NaN
  ELSE IF a.k = "inf" THEN (IF a.n > 0 THEN PosInf ELSE NaN)
  ELSE IF a.n < 0 THEN NaN
  ELSE Fin(CHOOSE r \in 0..(4 * U) : r * r <= a.n * U /\ a.n * U < (r + 1) * (r + 1))

\* math.ts mod on these numbers
NumMod(a, m) == NumRem(NumAdd(NumRem(a, m), m), m)

\* what an operation gives: a Vec2 object, or the throw of an assertion
Threw == [x |-> NaN, y |-> NaN, ok |-> FALSE]

\* new Vec2(x, y), lines 8-13: invariant(!Number.isNaN(x)), the same for y;
\* a throw is kept with the arguments that were refused
NewVec2(a, b) ==
  [x |-> a, y |-> b, ok |-> ~(IsNaN(a) \/ IsNaN(b))]

\* lines 15-54
Vec2_add(w, d) == NewVec2(NumAdd(w.x, d.x), NumAdd(w.y, d.y))
Vec2_sub(w, d) == NewVec2(NumSub(w.x, d.x), NumSub(w.y, d.y))
Vec2_subNumber(w, d) == NewVec2(NumSub(w.x, d), NumSub(w.y, d))
Vec2_mul(w, sc) == NewVec2(NumMul(w.x, sc), NumMul(w.y, sc))
Vec2_div(w, sc) ==
  IF sc = Fin(0) THEN Threw ELSE NewVec2(NumDiv(w.x, sc), NumDiv(w.y, sc))
Vec2_len(w) == NumSqrt(NumAdd(NumMul(w.x, w.x), NumMul(w.y, w.y)))
Vec2_norm(w) ==
  IF Vec2_len(w) = Fin(0) THEN w
  ELSE NewVec2(NumDiv(w.x, Vec2_len(w)), NumDiv(w.y, Vec2_len(w)))
Vec2_floor(w) == NewVec2(NumFloor(w.x), NumFloor(w.y))
Vec2_mod(w, m) == NewVec2(NumMod(w.x, m), NumMod(w.y, m))

\* the numbers given to the constructor and to the methods
Numbers == {NaN, PosInf, NegInf, Fin(0), Fin(2 * U), Fin(-(3 * U)),
            Fin(MAX_VALUE), Fin(Half)}

\* the Vec2 objects that exist: the constructor returned them
Vectors == {w \in {NewVec2(a, b) : a, b \in Numbers} : w.ok}

Vec2Init ==
  /\ vec = Threw /\ vecOp = "none" /\ vecThrown = FALSE
  /\ world = <<>> /\ player = null /\ appVelocity = null
  /\ allowMove = TRUE /\ calls = <<>>
  /\ CallIdle
  /\ FrameIdle

\* the outcome of an operation
Gives(op, res) ==
  /\ vecOp' = op
  /\ vecThrown' = ~res.ok
  /\ vec' = res
  /\ UNCHANGED <<world, player, appVelocity, allowMove, calls>>
  /\ UNCHANGED callVars
  /\ UNCHANGED frameVars

\* new Vec2(x, y) with any two numbers
Construct ==
  /\ vecOp = "none"
  /\ \E a, b \in Numbers : Gives("new", NewVec2(a, b))

\* one method call on an object that exists
Method ==
  /\ vecOp = "new" /\ ~vecThrown
  /\ \/ \E d \in Vectors : Gives("add", Vec2_add(vec, d))
     \/ \E d \in Vectors : Gives("sub", Vec2_sub(vec, d))
     \/ \E d \in Numbers : Gives("sub", Vec2_subNumber(vec, d))
     \/ \E sc \in Numbers : Gives("mul", Vec2_mul(vec, sc))
     \/ \E sc \in Numbers : Gives("div", Vec2_div(vec, sc))
     \/ Gives("norm", Vec2_norm(vec))
     \/ Gives("floor", Vec2_floor(vec))
     \/ \E m \in Numbers : Gives("mod", Vec2_mod(vec, m))

Vec2Next == Construct \/ Method

Vec2Spec == Vec2Init /\ [][Vec2Next]_vars

---------------------------------------------------------------------------
(* Properties of Vec2 *)

\* an operation returned an object
VecReturned == vecOp # "none" /\ ~vecThrown

\* C22 as stated: the constructor fails for NaN, +Infinity and -Infinity in
\* x or y, so no Vec2 that the constructor or add, sub, mul, div, norm,
\* floor or mod returned holds a non-finite component.
VecRejectsNonFinite ==
  /\ vecOp = "new" => (vecThrown <=> ~(IsFinite(vec.x) /\ IsFinite(vec.y)))
  /\ VecReturned => IsFinite(vec.x) /\ IsFinite(vec.y)

\* What the constructor does keep: it fails exactly for a NaN in x or y, so no
\* Vec2 that the constructor or add, sub, mul, div, norm, floor or mod
\* returned holds a NaN; +Infinity and -Infinity are accepted.
VecRejectsNaN ==
  /\ vecOp = "new" => (vecThrown <=> IsNaN(vec.x) \/ IsNaN(vec.y))
  /\ VecReturned => ~IsNaN(vec.x) /\ ~IsNaN(vec.y)

\* mul returned a Vec2 with an infinite and a finite component
VecRejectsNaNWitness ==
  /\ VecReturned /\ vecOp = "mul"
  /\ vec.x = NegInf /\ IsFinite(vec.y) /\ vec.y # Fin(0)

===========================================================================
